---------------------------- MODULE Spec2Model ----------------------------
(***************************************************************************)
(* State-machine model of the SOFC monitoring backend: the in-memory      *)
(* histories (storage.ts, simulink/simStream.ts), the serial line parser   *)
(* and device link (serial.ts), the WebSocket fan-out (websocket.ts) and   *)
(* the server's demo-mode loop and REST routes (index.ts).                 *)
(*                                                                         *)
(* Node runs every callback to completion, so one action is one callback   *)
(* (timer, I/O completion, HTTP request, socket event) together with the   *)
(* promise continuations it resumes.                                       *)
(***************************************************************************)
EXTENDS Integers, Sequences, FiniteSets, TLC

(***************************************************************************)
(* Capacities and limits of the source, scaled down so that eviction and   *)
(* truncation happen within a few pushes.  The order relations of the      *)
(* source are kept: DefaultLimit < MAX_READINGS (100 < 500),               *)
(* WsHistoryLimit < MAX_READINGS (100 < 500) and WsSimLimit < maxSamples   *)
(* (1000 < 2000).                                                          *)
(***************************************************************************)
\* storage.ts: MAX_READINGS = 500
MAX_READINGS == 3
\* simStream.ts: simState.maxSamples = 2000
maxSamples == 3
\* storage.ts: getReadingsHistory(limit = 100); index.ts: parseInt(limit) || 100
DefaultLimit == 2
\* websocket.ts: getReadingsHistory(100)
WsHistoryLimit == 1
\* websocket.ts: getSimulinkHistory(1000)
WsSimLimit == 2

(***************************************************************************)
(* Bounds on the environment: how many inputs of each kind one run feeds.  *)
(***************************************************************************)
\* device lines that yield a stored reading
MaxLines == 2
StoreLines == 4
LinkLines == 1
WsLines == 2
ParseLines == 3
FeedLines == 2
\* callbacks of the demo interval
MaxTicks == 2
WsTicks == 1
\* external samples accepted
MaxPosts == 2
StorePosts == 4
WsPosts == 2
IngestPosts == 3
StreamPosts == 2
\* calls of connectSerial, the one of start() included
MaxAttempts == 3
LinkAttempts == 2
ConfigAttempts == 3
RetryAttempts == 3
\* 'error' events of the transport
MaxErrors == 1
\* largest numeric limit a query carries
MaxLimit == 4
\* useSimulinkStream: MAX_SAMPLES, the limit of its history request, what the
\* mock interval keeps, the length of the mock series, the latest instant
MAX_SAMPLES == 4
FetchLimit == 2
MockKeep == 2
MockSeriesLen == 3
MaxNow == 8
\* seconds after which the last live sample counts as stale
StaleAfter == 5
\* useLiveSOFC: MAX_HISTORY, the WebSocket objects it creates, the readings
\* published to it
MAX_HISTORY == 3
MaxSockets == 4
HookReadings == 2
DemoAttempts == 4
DemoTicks == 1

Min(a, b) == IF a <= b THEN a ELSE b
Max(a, b) == IF a >= b THEN a ELSE b

Last(s) == s[Len(s)]

\* The elements of a sequence, as a set.
Range(s) == {s[i] : i \in 1..Len(s)}

(***************************************************************************)
(* JavaScript numbers that reach the slice calls: an integer or NaN.       *)
(***************************************************************************)
Num(n) == [nan |-> FALSE, n |-> n]
NaN == [nan |-> TRUE, n |-> 0]

\* Math.min(limit, length): NaN if limit is NaN.
MathMin(limit, len) == IF limit.nan THEN NaN ELSE Num(Min(limit.n, len))

\* Array.prototype.slice(-count): the relative start is ToIntegerOrInfinity(-count),
\* which is 0 for NaN and for -0; a negative start counts from the end.
SliceNeg(arr, count) ==
    LET rel == IF count.nan THEN 0 ELSE 0 - count.n
        from == IF rel < 0 THEN Max(Len(arr) + rel, 0) ELSE Min(rel, Len(arr))
    IN  SubSeq(arr, from + 1, Len(arr))

(***************************************************************************)
(* storage.ts                                                              *)
(***************************************************************************)
\* a variant that evicts the newest entries: pop() for shift()
RECURSIVE ShiftWhileOver_Pop(_, _)
ShiftWhileOver_Pop(arr, cap) ==
    IF Len(arr) > cap THEN ShiftWhileOver_Pop(SubSeq(arr, 1, Len(arr) - 1), cap) ELSE arr

RECURSIVE ShiftWhileOver(_, _)
\* while (arr.length > cap) arr.shift()
ShiftWhileOver(arr, cap) ==
    IF Len(arr) > cap THEN ShiftWhileOver(Tail(arr), cap) ELSE arr

\* addReading: push, then evict from the front
addReading(rs, reading) == ShiftWhileOver(Append(rs, reading), MAX_READINGS)

\* getLatestReading: <<>> stands for null
getLatestReading(rs) == IF Len(rs) > 0 THEN <<rs[Len(rs)]>> ELSE <<>>

\* getReadingsHistory(limit)
getReadingsHistory(rs, limit) == SliceNeg(rs, MathMin(limit, Len(rs)))

\* a variant without the default: the whole array
getReadingsHistoryDefault_All(rs) == rs

\* getReadingsHistory(): the parameter default
getReadingsHistoryDefault(rs) == getReadingsHistory(rs, Num(DefaultLimit))

(***************************************************************************)
(* simulink/simStream.ts                                                   *)
(***************************************************************************)
\* the storage part of addSimulinkSample: push, then evict from the front
pushSample(ss, sample) == ShiftWhileOver(Append(ss, sample), maxSamples)

\* getSimulinkHistory(limit)
getSimulinkHistory(ss, limit) == SliceNeg(ss, MathMin(limit, Len(ss)))

\* getSimulinkHistory(): limit === undefined
getSimulinkHistoryAll(ss) == ss

getLatestSimulinkSample(ss) == IF Len(ss) > 0 THEN <<ss[Len(ss)]>> ELSE <<>>

\* Field names are the strings "a" < "b" < "c"; Array.sort() orders them so.
FieldNames == <<"a", "b", "c">>

\* The ascending sequence of the names in set S.
RECURSIVE SortedFrom(_, _)
SortedFrom(S, i) ==
    IF i > Len(FieldNames) THEN <<>>
    ELSE IF FieldNames[i] \in S THEN <<FieldNames[i]>> \o SortedFrom(S, i + 1)
    ELSE SortedFrom(S, i + 1)

\* a variant that reads the newest sample only
getSimulinkFields_Latest(ss) ==
    IF Len(ss) = 0 THEN <<>> ELSE SortedFrom(ss[Len(ss)].data, 1)

\* getSimulinkFields: the keys of the samples held in simState.samples, sorted
getSimulinkFields(ss) ==
    SortedFrom(UNION {ss[i].data : i \in 1..Len(ss)}, 1)


(***************************************************************************)
(* serial.ts: the line parser.  A line is a sequence of tokens; a token is *)
(* white space, a piece of text, a brace, or one "key":value member of a   *)
(* JSON object (the separating commas are implied between members).        *)
(***************************************************************************)
Tok(kind) == [k |-> kind, key |-> "", val |-> ""]
Pair(key, val) == [k |-> "pair", key |-> key, val |-> val]

\* JSON.parse of one value text.  "NaN" is no JSON text; 1e999 overflows to Infinity.
JsonValueOk(text) == text \in {"27.5", "28.1", "2.4", "3.1", "1e999", "\"bad\"", "null", "true"}
JsonValue(text) ==
    CASE text \in {"27.5", "28.1", "2.4", "3.1"} -> [t |-> "number", v |-> text, n |-> 0]
      [] text = "1e999" -> [t |-> "number", v |-> "Infinity", n |-> 0]
      [] text = "\"bad\"" -> [t |-> "string", v |-> "bad", n |-> 0]
      [] text = "null" -> [t |-> "object", v |-> "null", n |-> 0]
      [] OTHER -> [t |-> "boolean", v |-> text, n |-> 0]

\* a property that is absent reads as undefined
Undefined == [t |-> "undefined", v |-> "undefined", n |-> 0]

\* String.prototype.trim on tokens
RECURSIVE TrimLeft(_)
TrimLeft(line) ==
    IF Len(line) > 0 /\ line[1].k = "sp" THEN TrimLeft(Tail(line)) ELSE line
RECURSIVE TrimRight(_)
TrimRight(line) ==
    IF Len(line) > 0 /\ line[Len(line)].k = "sp"
    THEN TrimRight(SubSeq(line, 1, Len(line) - 1)) ELSE line
Trim(line) == TrimRight(TrimLeft(line))

\* indexOf / lastIndexOf, 1-based, 0 for "not found" (-1 in the source)
IndexOf(line, kind) ==
    LET hits == {i \in 1..Len(line) : line[i].k = kind}
    IN  IF hits = {} THEN 0 ELSE CHOOSE i \in hits : \A j \in hits : i <= j
LastIndexOf(line, kind) ==
    LET hits == {i \in 1..Len(line) : line[i].k = kind}
    IN  IF hits = {} THEN 0 ELSE CHOOSE i \in hits : \A j \in hits : i >= j

\* extractJson: <<>> stands for null, <<s>> for the substring s
extractJson(line) ==
    LET startIdx == IndexOf(line, "{")
        endIdx == LastIndexOf(line, "}")
    IN  IF startIdx # 0 /\ endIdx # 0 /\ endIdx > startIdx
        THEN <<SubSeq(line, startIdx, endIdx)>>
        ELSE <<>>

\* Whether JSON.parse accepts the text: one object whose members are well-formed.
JsonParses(str) ==
    /\ Len(str) >= 2
    /\ str[1].k = "{"
    /\ str[Len(str)].k = "}"
    /\ \A i \in 2..(Len(str) - 1) :
          \/ str[i].k = "sp"
          \/ str[i].k = "pair" /\ JsonValueOk(str[i].val)

\* JSON.parse of an accepted text: the object, a later member of a key winning.
JsonParse(str) ==
    LET idx == {i \in 2..(Len(str) - 1) : str[i].k = "pair"}
        keys == {str[i].key : i \in idx}
    IN  [key \in keys |->
            LET i == CHOOSE i \in idx :
                        /\ str[i].key = key
                        /\ \A j \in idx : str[j].key = key => j <= i
            IN  JsonValue(str[i].val)]

\* obj.key of a parsed object
Get(obj, key) == IF key \in DOMAIN obj THEN obj[key] ELSE Undefined

IsNaN(x) == x.v = "NaN"

SensorKeys == {"t_water", "t_air", "p_air", "p_water"}

\* a variant that forgets p_water
validateReading_NoPWater(data) ==
    \A key \in {"t_water", "t_air", "p_air"} : Get(data, key).t = "number"

\* validateReading (data is an object here: JsonParse yields nothing else)
validateReading(data) ==
    /\ Get(data, "t_water").t = "number"
    /\ Get(data, "t_air").t = "number"
    /\ Get(data, "p_air").t = "number"
    /\ Get(data, "p_water").t = "number"
    /\ ~IsNaN(Get(data, "t_water"))
    /\ ~IsNaN(Get(data, "t_air"))
    /\ ~IsNaN(Get(data, "p_air"))
    /\ ~IsNaN(Get(data, "p_water"))

\* the server's timestamp: instant number `at`
Ts(at) == [t |-> "string", v |-> "iso", n |-> at]

\* { ...data, ts: new Date().toISOString() }
MakeReading(data, at) ==
    [key \in (DOMAIN data) \cup {"ts"} |-> IF key = "ts" THEN Ts(at) ELSE data[key]]

\* processLine up to the decision: <<>> when the line yields no reading,
\* <<reading>> when it yields one (JSON.parse throwing is caught and logged).
parseLine(line, at) ==
    LET trimmedLine == Trim(line)
        jsonStr == extractJson(trimmedLine)
    IN  IF Len(trimmedLine) = 0 THEN <<>>
        ELSE IF jsonStr = <<>> THEN <<>>
        ELSE IF ~JsonParses(jsonStr[1]) THEN <<>>
        ELSE IF validateReading(JsonParse(jsonStr[1]))
             THEN <<MakeReading(JsonParse(jsonStr[1]), at)>>
             ELSE <<>>

(***************************************************************************)
(* mockData.ts                                                             *)
(***************************************************************************)
\* randomInRange(min, max, 2): Number(value.toFixed(2)), always a finite number
randomInRange == [t |-> "number", v |-> "27.5", n |-> 0]

\* generateDemoReading
generateDemoReading(at) ==
    [key \in SensorKeys \cup {"ts"} |-> IF key = "ts" THEN Ts(at) ELSE randomInRange]

(***************************************************************************)
(* The device lines the environment sends.                                 *)
(***************************************************************************)
ValidMembers ==
    <<Pair("t_water", "27.5"), Pair("t_air", "28.1"), Pair("p_air", "2.4"), Pair("p_water", "3.1")>>
Obj(members) == <<Tok("{")>> \o members \o <<Tok("}")>>
WithFirst(val) == <<Pair("t_water", val)>> \o Tail(ValidMembers)

Lines ==
    { <<>>,
      <<Tok("sp"), Tok("sp")>>,
      <<Tok("DEBUG"), Tok("txt")>>,
      <<Tok("txt")>>,
      Obj(ValidMembers),
      <<Tok("sp")>> \o Obj(ValidMembers) \o <<Tok("sp")>>,
      <<Tok("DEBUG"), Tok("txt")>> \o Obj(ValidMembers) \o <<Tok("txt")>>,
      Obj(<<Pair("t_water", "\"bad\"")>>),
      Obj(SubSeq(ValidMembers, 1, 3)),
      Obj(WithFirst("1e999")),
      Obj(WithFirst("null")),
      Obj(WithFirst("NaN")),
      Obj(<<Tok("txt")>>),
      <<Tok("}"), Tok("{")>>,
      Obj(ValidMembers) \o Obj(ValidMembers) }


(***************************************************************************)
(* State.                                                                  *)
(***************************************************************************)
VARIABLES
    readings,        \* storage.ts: readings
    samples,         \* simStream.ts: simState.samples
    broadcastFn,     \* simStream.ts: broadcastFn is set (TRUE) or null (FALSE)
    port,            \* serial.ts: port, an index into ports, 0 for null
    ports,           \* every SerialPort object created so far
    currentConfig,   \* serial.ts: currentConfig
    reconnectTimer,  \* serial.ts: reconnectTimer: "null", or a handle "live" / "fired"
    timers,          \* number of reconnect timeouts pending in the event loop
    demoInterval,    \* index.ts: demoInterval is set
    demoTimers,      \* number of demo intervals (setInterval) alive in the event loop
    readyState,      \* per WebSocket client: "none", "open", "closing", "closed"
    inbox,           \* per client: the messages sent to it, in order
    resp,            \* the body of the last REST response
    pushedR,         \* history: every reading passed to addReading, in order
    pushedS,         \* history: every sample pushed to simState.samples, in order
    regAt,           \* history: per client, the push and demo counts at its registration
    pubSince,        \* history: per client, the messages broadcast since it registered
    nDemo,           \* history: number of demo readings generated
    nTicks,          \* history: number of demo-interval callbacks run
    nAttempts,       \* history: number of connectSerial calls
    nErrors,         \* history: number of transport 'error' events
    lastLine,        \* history: the line last handed to processLine, the number
                     \* of readings stored before it, and whether the line
                     \* before it yielded no reading
    phase,           \* the process: "running", "stopping" after SIGINT, "exited"
    stream,          \* useSimulinkStream: the state and refs of the hook
    now,             \* Date.now() in the browser, in seconds
    hook,            \* useLiveSOFC: the refs and history of the hook, its sockets and timeouts
    lim              \* the environment's budget of inputs, fixed by Init

linkVars == <<port, ports, currentConfig, reconnectTimer, timers>>
storeVars == <<readings, samples, pushedR, pushedS>>
wsVars == <<readyState, inbox, regAt, pubSince>>
uiVars == <<stream, now, hook>>
vars == <<readings, samples, broadcastFn, port, ports, currentConfig,
          reconnectTimer, timers, demoInterval, readyState, inbox, resp,
          pushedR, pushedS, regAt, pubSince, nDemo, nTicks, nAttempts, nErrors,
          lastLine, phase, stream, now, hook, demoTimers, lim>>

Clients == 1..2

(***************************************************************************)
(* websocket.ts: messages and fan-out.                                     *)
(***************************************************************************)
ReadingMsg(r) == [type |-> "reading", data |-> r]
\* the history message's array is field `data` in the source
HistoryMsg(h) == [type |-> "history", hist |-> h]
StatusMsg(level, message) == [type |-> "status", level |-> level, message |-> message]
SimMsg(s) == [type |-> "simulink-sample", payload |-> s]

Welcome == StatusMsg("info", "Connected to SOFC monitoring server")
DemoWarning == StatusMsg("warning", "Running in demo mode - no Arduino connected")
ConnectedTo(path) == StatusMsg("info", IF path = "COM8" THEN "Connected to COM8" ELSE "Connected to COM9")
NotAvailable == StatusMsg("error", "Serial port not available")
SerialError == StatusMsg("error", "Serial error")
PortClosed == StatusMsg("warning", "Serial port closed")

\* a variant whose loop over the clients ends at the first client that is
\* not open
SendAll_StopAtNotOpen(rs, ib, out) ==
    [c \in Clients |->
        IF rs[c] = "open" /\ \A d \in Clients : d < c => rs[d] \in {"open", "none"}
        THEN ib[c] \o out ELSE ib[c]]

\* a variant that sends every message twice
SendAll_Twice(rs, ib, out) ==
    [c \in Clients |-> IF rs[c] = "open" THEN ib[c] \o out \o out ELSE ib[c]]

\* wss.clients.forEach(client => { if (client.readyState === OPEN) client.send(m) }),
\* for each message of `out` in turn
SendAll(rs, ib, out) ==
    [c \in Clients |-> IF rs[c] = "open" THEN ib[c] \o out ELSE ib[c]]

\* history: `out` is broadcast; every registered client is due its messages
CountAll(rs, ps, out) ==
    [c \in Clients |-> IF rs[c] = "none" THEN ps[c] ELSE ps[c] + Len(out)]

(***************************************************************************)
(* serial.ts: the device link.  L is the module's state as a record        *)
(* [port, ports, currentConfig, reconnectTimer, timers]; the operators     *)
(* return the state after the call.                                        *)
(***************************************************************************)
Link ==
    [port |-> port, ports |-> ports, currentConfig |-> currentConfig,
     reconnectTimer |-> reconnectTimer, timers |-> timers]

\* port.isOpen of SerialPort object p: open and not closing
IsOpen(L, p) == L.ports[p].st = "open"

\* isSerialConnected
isSerialConnectedIn(L) == L.port # 0 /\ IsOpen(L, L.port)
isSerialConnected == isSerialConnectedIn(Link)

\* clearTimeout(reconnectTimer): a handle that already fired is left alone
ClearTimer(L) ==
    IF L.reconnectTimer = "live" THEN [L EXCEPT !.timers = @ - 1] ELSE L

\* a variant that arms a new timeout without clearing the pending one
scheduleReconnect_NoClear(L) ==
    [L EXCEPT !.reconnectTimer = "live", !.timers = @ + 1]

\* scheduleReconnect
scheduleReconnect(L) ==
    LET cleared == IF L.reconnectTimer # "null" THEN ClearTimer(L) ELSE L
    IN  [cleared EXCEPT !.reconnectTimer = "live", !.timers = @ + 1]

\* closeSerial up to its await: the timer is cleared; an open port is asked to
\* close (pending: the caller resumes from the close callback), otherwise
\* port and parser are dropped at once.
closeSerial(L, caller) ==
    LET c == IF L.reconnectTimer # "null"
             THEN [ClearTimer(L) EXCEPT !.reconnectTimer = "null"]
             ELSE L
    IN  IF c.port # 0 /\ IsOpen(c, c.port)
        THEN [L |-> [c EXCEPT !.ports[c.port].st = "closing",
                              !.ports[c.port].closer = caller],
              pending |-> TRUE]
        ELSE [L |-> [c EXCEPT !.port = 0], pending |-> FALSE]

\* new SerialPort({path, baudRate, autoOpen: false}) throws on a baud rate
\* that is not a number
ValidBaud(cfg) == cfg.baudRate \in {"9600", "115200"}

\* connectSerial after closeSerial has returned: the try block up to the
\* await of port.open (res "pending"), or the catch block (res "false")
openPort(L, caller) ==
    IF ValidBaud(L.currentConfig)
    THEN [L |-> [L EXCEPT !.ports = Append(@, [st |-> "opening", opener |-> caller,
                                               closer |-> "none",
                                               path |-> L.currentConfig.port,
                                               baud |-> L.currentConfig.baudRate]),
                          !.port = Len(L.ports) + 1],
          out |-> <<>>, res |-> "pending"]
    ELSE [L |-> scheduleReconnect(L), out |-> <<NotAvailable>>, res |-> "false"]

\* connectSerial up to its first suspension
connectSerial(L, caller) ==
    LET c == closeSerial(L, caller)
    IN  IF c.pending THEN [L |-> c.L, out |-> <<>>, res |-> "pending"]
        ELSE openPort(c.L, caller)


(***************************************************************************)
(* index.ts: demo mode.                                                    *)
(***************************************************************************)
\* a variant without the check of the existing interval
startDemoMode_NoGuard(demo) ==
    [demo |-> TRUE, out |-> <<DemoWarning>>, made |-> 1]

\* startDemoMode: a no-op when the interval exists, else the warning and the
\* interval; `made` is the number of intervals the call adds
startDemoMode(demo) ==
    IF demo THEN [demo |-> TRUE, out |-> <<>>, made |-> 0]
    ELSE [demo |-> TRUE, out |-> <<DemoWarning>>, made |-> 1]

\* stopDemoMode: clearInterval of the interval demoInterval refers to
stopDemoMode(demo) ==
    [demo |-> FALSE, out |-> <<>>, made |-> IF demo THEN -1 ELSE 0]

\* What the caller of connectSerial does with its result:
\*   start():  if (!serialConnected) startDemoMode(); setBroadcastFunction(...)
\*   POST /api/settings/serial:  connected ? stopDemoMode() : startDemoMode()
\*   the reconnect timer's callback ignores it
Resume(caller, connected, demo, bfn) ==
    CASE caller = "start" ->
            LET d == IF connected THEN [demo |-> demo, out |-> <<>>, made |-> 0]
                     ELSE startDemoMode(demo)
            IN  [demo |-> d.demo, out |-> d.out, bfn |-> TRUE, made |-> d.made]
      [] caller = "post" ->
            LET d == IF connected THEN stopDemoMode(demo) ELSE startDemoMode(demo)
            IN  [demo |-> d.demo, out |-> d.out, bfn |-> bfn, made |-> d.made]
      [] OTHER -> [demo |-> demo, out |-> <<>>, bfn |-> bfn, made |-> 0]

\* the instant the next reading is stamped with
Clock == Len(pushedR) + nDemo + 1

NoResp == [route |-> "none"]

\* before the first line arrives
NoLine == [line |-> <<>>, at |-> -1, afterDrop |-> FALSE]

\* The effect of one callback on the link, the clients and the server's flags.
Effect(L, out, demo, bfn) ==
    /\ port' = L.port
    /\ ports' = L.ports
    /\ currentConfig' = L.currentConfig
    /\ reconnectTimer' = L.reconnectTimer
    /\ timers' = L.timers
    /\ inbox' = SendAll(readyState, inbox, out)
    /\ pubSince' = CountAll(readyState, pubSince, out)
    /\ demoInterval' = demo
    /\ broadcastFn' = bfn
    /\ resp' = NoResp

(***************************************************************************)
(* serial.ts: completions and events of the transport.                     *)
(***************************************************************************)
\* a variant whose failure branch does not schedule a reconnect
OpenDone_NoRetry(p, ok) ==
    /\ p \in 1..Len(ports)
    /\ ports[p].st = "opening"
    /\ LET L1 == [Link EXCEPT !.ports[p].st = IF ok THEN "open" ELSE "closed"]
           out1 == IF ok THEN <<ConnectedTo(L1.currentConfig.port)>> ELSE <<NotAvailable>>
           k == Resume(ports[p].opener, ok, demoInterval, broadcastFn)
       IN  /\ Effect(L1, out1 \o k.out, k.demo, k.bfn)
           /\ demoTimers' = demoTimers + k.made
    /\ UNCHANGED <<storeVars, readyState, regAt, nDemo, nTicks, nAttempts, nErrors, lastLine, phase, uiVars, lim>>

\* port.open's callback on SerialPort object p, with or without an error
OpenDone(p, ok) ==
    /\ p \in 1..Len(ports)
    /\ ports[p].st = "opening"
    /\ LET L1 == [Link EXCEPT !.ports[p].st = IF ok THEN "open" ELSE "closed"]
           L2 == IF ok THEN L1 ELSE scheduleReconnect(L1)
           out1 == IF ok THEN <<ConnectedTo(L1.currentConfig.port)>> ELSE <<NotAvailable>>
           k == Resume(ports[p].opener, ok, demoInterval, broadcastFn)
       IN  /\ Effect(L2, out1 \o k.out, k.demo, k.bfn)
           /\ demoTimers' = demoTimers + k.made
    /\ UNCHANGED <<storeVars, readyState, regAt, nDemo, nTicks, nAttempts, nErrors, lastLine, phase, uiVars, lim>>

\* The close that closeSerial asked for completes on SerialPort object q: the
\* stream emits 'close' (the handler of lines 157-163 runs), then calls the
\* callback of lines 220-227, which resumes connectSerial.
CloseDone(q) ==
    /\ q \in 1..Len(ports)
    /\ ports[q].st = "closing"
    /\ LET L1 == [Link EXCEPT !.ports[q].st = "closed"]
           L2 == scheduleReconnect(L1)
           L3 == [L2 EXCEPT !.port = 0]
           r == openPort(L3, ports[q].closer)
           k == IF r.res = "false"
                THEN Resume(ports[q].closer, FALSE, demoInterval, broadcastFn)
                ELSE [demo |-> demoInterval, out |-> <<>>, bfn |-> broadcastFn, made |-> 0]
       IN  /\ Effect(r.L, <<PortClosed>> \o r.out \o k.out, k.demo, k.bfn)
           /\ demoTimers' = demoTimers + k.made
    /\ UNCHANGED <<storeVars, readyState, regAt, nDemo, nTicks, nAttempts, nErrors, lastLine, phase, uiVars, lim>>

\* The transport closes by itself (the device is unplugged): 'close' handler
PortCloseEvent(p) ==
    /\ p \in 1..Len(ports)
    /\ ports[p].st = "open"
    /\ LET L1 == [Link EXCEPT !.ports[p].st = "closed"]
       IN  Effect(scheduleReconnect(L1), <<PortClosed>>, demoInterval, broadcastFn)
    /\ UNCHANGED <<storeVars, readyState, regAt, nDemo, nTicks, nAttempts, nErrors, lastLine, phase, uiVars, demoTimers, lim>>

\* The transport reports an error: 'error' handler.  The stream stays as it is.
PortErrorEvent(p) ==
    /\ p \in 1..Len(ports)
    /\ ports[p].st = "open"
    /\ nErrors < lim.errors
    /\ Effect(scheduleReconnect(Link), <<SerialError>>, demoInterval, broadcastFn)
    /\ nErrors' = nErrors + 1
    /\ UNCHANGED <<storeVars, readyState, regAt, nDemo, nTicks, nAttempts, lastLine, phase, uiVars, demoTimers, lim>>

\* The reconnect timeout fires: connectSerial()
TimerFire ==
    /\ timers > 0
    /\ reconnectTimer = "live"
    /\ nAttempts < lim.attempts
    /\ LET L1 == [Link EXCEPT !.timers = @ - 1, !.reconnectTimer = "fired"]
           r == connectSerial(L1, "timer")
       IN  Effect(r.L, r.out, demoInterval, broadcastFn)
    /\ nAttempts' = nAttempts + 1
    /\ UNCHANGED <<storeVars, readyState, regAt, nDemo, nTicks, nErrors, lastLine, phase, uiVars, demoTimers, lim>>

\* The bodies POST /api/settings/serial is sent
SettingsBodies ==
    { [port |-> "COM9", baudRate |-> "9600"],
      [port |-> "COM8", baudRate |-> "9600"],
      [port |-> "COM9", baudRate |-> "fast"],
      [port |-> "", baudRate |-> "9600"] }

\* POST /api/settings/serial: 400 on a missing port, else updateSerialConfig
PostSettings(body) ==
    /\ phase = "running"
    /\ IF body.port = ""
       THEN /\ resp' = [route |-> "settings", status |-> 400]
            /\ UNCHANGED <<storeVars, linkVars, wsVars, broadcastFn, demoInterval,
                           nDemo, nTicks, nAttempts, nErrors, lastLine, phase, uiVars, demoTimers, lim>>
       ELSE /\ nAttempts < lim.attempts
            /\ LET L1 == [Link EXCEPT !.currentConfig = body]
                   r == connectSerial(L1, "post")
                   k == IF r.res = "false"
                        THEN Resume("post", FALSE, demoInterval, broadcastFn)
                        ELSE [demo |-> demoInterval, out |-> <<>>, bfn |-> broadcastFn, made |-> 0]
               IN  /\ Effect(r.L, r.out \o k.out, k.demo, k.bfn)
                   /\ demoTimers' = demoTimers + k.made
            /\ nAttempts' = nAttempts + 1
            /\ UNCHANGED <<storeVars, readyState, regAt, nDemo, nTicks, nErrors, lastLine, phase, uiVars, lim>>

\* parser.on('data'): processLine(line), on a SerialPort object that is open
SerialData(p, line) ==
    /\ p \in 1..Len(ports)
    /\ ports[p].st = "open"
    /\ LET r == parseLine(line, Clock)
       IN  IF r = <<>>
           THEN /\ resp' = NoResp
                /\ UNCHANGED <<storeVars, linkVars, wsVars, broadcastFn, demoInterval>>
           ELSE /\ Len(pushedR) < lim.lines
                /\ readings' = addReading(readings, r[1])
                /\ pushedR' = Append(pushedR, r[1])
                /\ Effect(Link, <<ReadingMsg(r[1])>>, demoInterval, broadcastFn)
                /\ UNCHANGED <<samples, pushedS, readyState, regAt>>
    /\ lastLine' = [line |-> line, at |-> Len(pushedR),
                    afterDrop |-> lastLine.at >= 0 /\ Len(pushedR) = lastLine.at]
    /\ UNCHANGED <<nDemo, nTicks, nAttempts, nErrors, phase, uiVars, demoTimers, lim>>

(***************************************************************************)
(* index.ts: the demo intervals' callbacks at one tick of the clock: each   *)
(* interval alive runs its callback once.                                  *)
(***************************************************************************)
DemoTick ==
    /\ demoTimers > 0
    /\ nTicks < lim.ticks
    /\ nTicks' = nTicks + 1
    /\ IF ~isSerialConnected
       THEN /\ Effect(Link, [i \in 1..demoTimers |-> ReadingMsg(generateDemoReading(Clock))],
                      demoInterval, broadcastFn)
            /\ nDemo' = nDemo + demoTimers
       ELSE /\ Effect(Link, <<>>, demoInterval, broadcastFn)
            /\ nDemo' = nDemo
    /\ UNCHANGED <<storeVars, readyState, regAt, nAttempts, nErrors, lastLine, phase, uiVars, demoTimers, lim>>


(***************************************************************************)
(* index.ts: external-sample ingestion (POST /data, POST /api/sim-data).   *)
(* A body is [time, data]; data is [t, null, keys]: its typeof, whether it *)
(* is null, and the names of its properties.                               *)
(***************************************************************************)
DataObj(keys) == [t |-> "object", null |-> FALSE, keys |-> keys]
DataNull == [t |-> "object", null |-> TRUE, keys |-> {}]
DataOther(t) == [t |-> t, null |-> FALSE, keys |-> {}]
TimeNum(n) == [t |-> "number", v |-> "finite", n |-> n]

\* the producer stamps its k-th accepted sample with time k
Bodies ==
    LET at == Len(pushedS) + 1
    IN  { [time |-> TimeNum(at), data |-> DataObj({"a"})],
          [time |-> TimeNum(at), data |-> DataObj({"b", "c"})],
          [time |-> TimeNum(at), data |-> DataNull],
          [time |-> TimeNum(at), data |-> DataOther("string")],
          [time |-> TimeNum(at), data |-> DataOther("undefined")],
          [time |-> [t |-> "string", v |-> "1.5", n |-> 0], data |-> DataObj({"a"})],
          [time |-> Undefined, data |-> DataObj({"a"})] }

\* JSON.parse of 1e999: the number Infinity
TimeInf(n) == [t |-> "number", v |-> "Infinity", n |-> n]

\* the bodies of a producer of signal "a" that also overflows its time stamp
IngestBodies ==
    {b \in Bodies : b.data.keys \subseteq {"a"}}
        \cup {[time |-> TimeInf(Len(pushedS) + 1), data |-> DataObj({"a"})]}

\* the route's check of the payload structure
ValidPayload(body) ==
    ~ \/ body.time.t # "number"
      \/ body.data.t # "object"
      \/ body.data.null

\* addSimulinkSample's own check: false when the sample is dropped
ValidSample(sample) ==
    ~ \/ sample.time.t # "number"
      \/ sample.data.null
      \/ sample.data.t \in {"undefined", "boolean"}
      \/ sample.data.t # "object"

\* the stored sample: its time, whether that time is finite, and the names
\* of its signals
Sample(body) ==
    [time |-> body.time.n, finite |-> body.time.v = "finite", data |-> body.data.keys]

\* a variant that keeps the samples in the device history as well
PostData_SharedHistory(body) ==
    /\ phase = "running"
    /\ IF ~ValidPayload(body)
       THEN /\ resp' = [route |-> "data", status |-> 400]
            /\ UNCHANGED <<storeVars, wsVars>>
       ELSE IF ~ValidSample(body)
       THEN /\ resp' = [route |-> "data", status |-> 200]
            /\ UNCHANGED <<storeVars, wsVars>>
       ELSE /\ Len(pushedS) < lim.posts
            /\ samples' = pushSample(samples, Sample(body))
            /\ pushedS' = Append(pushedS, Sample(body))
            /\ LET out == IF broadcastFn THEN <<SimMsg(Sample(body))>> ELSE <<>>
               IN  /\ inbox' = SendAll(readyState, inbox, out)
                   /\ pubSince' = CountAll(readyState, pubSince, out)
            /\ resp' = [route |-> "data", status |-> 200]
            /\ readings' = addReading(readings, Sample(body))
            /\ UNCHANGED <<pushedR, readyState, regAt>>
    /\ UNCHANGED <<linkVars, broadcastFn, demoInterval, nDemo, nTicks, nAttempts, nErrors, lastLine, phase, uiVars, demoTimers, lim>>

PostData(body) ==
    /\ phase = "running"
    /\ IF ~ValidPayload(body)
       THEN /\ resp' = [route |-> "data", status |-> 400]
            /\ UNCHANGED <<storeVars, wsVars>>
       ELSE IF ~ValidSample(body)
       THEN /\ resp' = [route |-> "data", status |-> 200]
            /\ UNCHANGED <<storeVars, wsVars>>
       ELSE /\ Len(pushedS) < lim.posts
            /\ samples' = pushSample(samples, Sample(body))
            /\ pushedS' = Append(pushedS, Sample(body))
            /\ LET out == IF broadcastFn THEN <<SimMsg(Sample(body))>> ELSE <<>>
               IN  /\ inbox' = SendAll(readyState, inbox, out)
                   /\ pubSince' = CountAll(readyState, pubSince, out)
            /\ resp' = [route |-> "data", status |-> 200]
            /\ UNCHANGED <<readings, pushedR, readyState, regAt>>
    /\ UNCHANGED <<linkVars, broadcastFn, demoInterval, nDemo, nTicks, nAttempts, nErrors, lastLine, phase, uiVars, demoTimers, lim>>

(***************************************************************************)
(* index.ts: shutdown.  server.close() stops the HTTP server from taking    *)
(* new requests and upgrades; its callback runs once every connection,     *)
(* the WebSocket clients' included, has ended.                              *)
(***************************************************************************)
\* no connection keeps the HTTP server from closing, client c left aside
Drained(c) == \A d \in Clients \ {c} : readyState[d] \in {"none", "closed"}

\* server.close's callback: process.exit(0).  The process ends: its timers
\* are gone and the system closes its descriptors.
ProcessExit ==
    /\ phase' = "exited"
    /\ port' = 0
    /\ ports' = [p \in 1..Len(ports) |-> [ports[p] EXCEPT !.st = "closed"]]
    /\ reconnectTimer' = "null"
    /\ timers' = 0
    /\ demoInterval' = FALSE
    /\ demoTimers' = 0
    /\ UNCHANGED currentConfig

\* process.on('SIGINT'): stopDemoMode(); server.close(callback)
Sigint ==
    /\ phase \in {"running", "stopping"}
    /\ IF Drained(0)
       THEN ProcessExit
       ELSE /\ phase' = "stopping"
            /\ demoInterval' = stopDemoMode(demoInterval).demo
            /\ demoTimers' = demoTimers + stopDemoMode(demoInterval).made
            /\ UNCHANGED linkVars
    /\ resp' = NoResp
    /\ UNCHANGED <<storeVars, wsVars, broadcastFn,
                   nDemo, nTicks, nAttempts, nErrors, lastLine, uiVars, lim>>

(***************************************************************************)
(* websocket.ts: clients.                                                  *)
(***************************************************************************)
\* simulinkHistory.forEach(sample => ws.send(simulink-sample message))
SimMsgs(ss) == [i \in 1..Len(ss) |-> SimMsg(ss[i])]

\* a variant that greets before it sends the histories
Greeting_WelcomeFirst(rs, ss) ==
    <<Welcome>>
        \o <<HistoryMsg(getReadingsHistory(rs, Num(WsHistoryLimit)))>>
        \o SimMsgs(getSimulinkHistory(ss, Num(WsSimLimit)))

\* a variant that takes the oldest samples of the buffer for the newest
Greeting_OldestSamples(rs, ss) ==
    <<HistoryMsg(getReadingsHistory(rs, Num(WsHistoryLimit)))>>
        \o SimMsgs(SubSeq(ss, 1, Min(WsSimLimit, Len(ss))))
        \o <<Welcome>>

\* what the connection handler sends to the new client
Greeting(rs, ss) ==
    <<HistoryMsg(getReadingsHistory(rs, Num(WsHistoryLimit)))>>
        \o SimMsgs(getSimulinkHistory(ss, Num(WsSimLimit)))
        \o <<Welcome>>

\* wss.on('connection'): the client is in wss.clients and OPEN when the
\* handler runs
Register(c) ==
    /\ phase = "running"
    /\ readyState[c] = "none"
    /\ \A d \in Clients : d < c => readyState[d] # "none"
    /\ c <= lim.clients
    /\ readyState' = [readyState EXCEPT ![c] = "open"]
    /\ inbox' = [inbox EXCEPT ![c] = Greeting(readings, samples)]
    /\ regAt' = [regAt EXCEPT ![c] = [nR |-> Len(pushedR), nS |-> Len(pushedS), nD |-> nDemo]]
    /\ resp' = NoResp
    /\ UNCHANGED <<storeVars, linkVars, pubSince, broadcastFn, demoInterval,
                   nDemo, nTicks, nAttempts, nErrors, lastLine, phase, uiVars, demoTimers, lim>>

\* the client's socket starts closing: readyState CLOSING, still in wss.clients
ClientClosing(c) ==
    /\ readyState[c] = "open"
    /\ readyState' = [readyState EXCEPT ![c] = "closing"]
    /\ resp' = NoResp
    /\ UNCHANGED <<storeVars, linkVars, inbox, regAt, pubSince, broadcastFn, demoInterval,
                   nDemo, nTicks, nAttempts, nErrors, lastLine, phase, uiVars, demoTimers, lim>>

\* the socket is closed and removed from wss.clients; the last connection
\* of a server that is closing lets server.close's callback run
ClientClosed(c) ==
    /\ readyState[c] \in {"open", "closing"}
    /\ readyState' = [readyState EXCEPT ![c] = "closed"]
    /\ IF phase = "stopping" /\ Drained(c)
       THEN ProcessExit
       ELSE UNCHANGED <<linkVars, demoInterval, demoTimers, phase>>
    /\ resp' = NoResp
    /\ UNCHANGED <<storeVars, inbox, regAt, pubSince, broadcastFn,
                   nDemo, nTicks, nAttempts, nErrors, lastLine, uiVars, lim>>

(***************************************************************************)
(* index.ts: the read routes.  A query parameter is absent, a decimal      *)
(* number, or some other text.                                             *)
(***************************************************************************)
QAbsent == [kind |-> "absent", n |-> 0]
QNum(n) == [kind |-> "num", n |-> n]
QText == [kind |-> "text", n |-> 0]
Queries == {QAbsent, QText} \cup {QNum(n) : n \in 0..MaxLimit}

\* parseInt(req.query.limit as string) || 100
ReadingsLimit(q) ==
    IF q.kind = "num" /\ q.n # 0 THEN Num(q.n) ELSE Num(DefaultLimit)

\* GET /api/readings/history
GetReadingsHistoryRoute(q) ==
    /\ phase = "running"
    /\ resp' = [route |-> "readings/history", q |-> q,
                data |-> getReadingsHistory(readings, ReadingsLimit(q))]
    /\ UNCHANGED <<storeVars, linkVars, wsVars, broadcastFn, demoInterval,
                   nDemo, nTicks, nAttempts, nErrors, lastLine, phase, uiVars, demoTimers, lim>>

\* GET /api/sim/history: req.query.limit ? Number(req.query.limit) : undefined
GetSimHistoryRoute(q) ==
    /\ phase = "running"
    /\ resp' = [route |-> "sim/history", q |-> q,
                data |-> IF q.kind = "absent" THEN getSimulinkHistoryAll(samples)
                         ELSE getSimulinkHistory(samples, IF q.kind = "num" THEN Num(q.n) ELSE NaN)]
    /\ UNCHANGED <<storeVars, linkVars, wsVars, broadcastFn, demoInterval,
                   nDemo, nTicks, nAttempts, nErrors, lastLine, phase, uiVars, demoTimers, lim>>

\* GET /api/readings/latest and GET /api/sim/latest
GetLatestRoute ==
    /\ phase = "running"
    /\ resp' = [route |-> "latest", reading |-> getLatestReading(readings),
                sample |-> getLatestSimulinkSample(samples)]
    /\ UNCHANGED <<storeVars, linkVars, wsVars, broadcastFn, demoInterval,
                   nDemo, nTicks, nAttempts, nErrors, lastLine, phase, uiVars, demoTimers, lim>>

\* GET /api/sim/fields
GetSimFieldsRoute ==
    /\ phase = "running"
    /\ resp' = [route |-> "sim/fields", fields |-> getSimulinkFields(samples)]
    /\ UNCHANGED <<storeVars, linkVars, wsVars, broadcastFn, demoInterval,
                   nDemo, nTicks, nAttempts, nErrors, lastLine, phase, uiVars, demoTimers, lim>>

\* A caller inside the server uses the exported function with limit n, or
\* without a limit (n = -1 stands for the omitted argument).
CallGetReadingsHistory(n) ==
    /\ phase # "exited"
    /\ resp' = [route |-> "getReadingsHistory", n |-> n,
                data |-> IF n = -1 THEN getReadingsHistoryDefault(readings)
                         ELSE getReadingsHistory(readings, Num(n))]
    /\ UNCHANGED <<storeVars, linkVars, wsVars, broadcastFn, demoInterval,
                   nDemo, nTicks, nAttempts, nErrors, lastLine, phase, uiVars, demoTimers, lim>>

(***************************************************************************)
(* useLiveSOFC.ts: what the dashboard makes of the messages it is sent.    *)
(***************************************************************************)
\* message.message.includes('demo'), over the texts the server sends
IncludesDemo(message) == message = "Running in demo mode - no Arduino connected"

\* ws.onmessage, case 'status': the connection status after message m
onStatusMessage(status, m) ==
    IF m.type # "status" THEN status
    ELSE IF m.level = "warning" /\ IncludesDemo(m.message) THEN "demo"
    ELSE IF m.level = "error" THEN "demo"
    ELSE status

RECURSIVE StatusAfter(_, _)
StatusAfter(status, msgs) ==
    IF msgs = <<>> THEN status
    ELSE StatusAfter(onStatusMessage(status, Head(msgs)), Tail(msgs))

\* connectionStatus of a dashboard whose socket opened (ws.onopen: 'live')
\* and that has handled every message of msgs
connectionStatus(msgs) == StatusAfter("live", msgs)

(***************************************************************************)
(* useLiveSOFC.ts: the hook's connection management.  hook.sockets holds   *)
(* the readyState of every WebSocket the hook created, hook.wsRef an index *)
(* into it (0 for null); reconnectTimerRef is "null" or a handle whose     *)
(* timeout is pending ("live") or is not any more, fired or cleared        *)
(* ("fired"); hook.stray counts the pending timeouts no ref holds any      *)
(* more.  A reading is the number of its publication.                      *)
(***************************************************************************)
\* arr.slice(-k) for a positive constant k
KeepLast(arr, k) == SubSeq(arr, Len(arr) - Min(k, Len(arr)) + 1, Len(arr))

\* ws.close(): a socket that is connecting or open starts closing
CloseSocket(h, k) ==
    IF k # 0 /\ h.sockets[k] \in {"connecting", "open"}
    THEN [h EXCEPT !.sockets[k] = "closing"]
    ELSE h

\* clearTimeout(reconnectTimerRef.current): cancels the timeout of the handle
ClearHookTimer(h) ==
    IF h.reconnectTimerRef = "live" THEN [h EXCEPT !.reconnectTimerRef = "fired"] ELSE h

\* the reconnect timeouts that are pending
Pending(h) == h.stray + (IF h.reconnectTimerRef = "live" THEN 1 ELSE 0)

\* connect(): closes the socket of wsRef, clears the timeout of the ref,
\* creates a WebSocket and stores it in wsRef
connect(h) ==
    LET h1 == CloseSocket(h, h.wsRef)
        h2 == IF h1.reconnectTimerRef # "null"
              THEN [ClearHookTimer(h1) EXCEPT !.reconnectTimerRef = "null"]
              ELSE h1
    IN  [h2 EXCEPT !.sockets = Append(@, "connecting"),
                   !.wsRef = Len(h2.sockets) + 1]

\* the hook after its first render and the mount effect's connect()
HookMounted ==
    [mounted |-> TRUE, wsRef |-> 1, reconnectTimerRef |-> "null", stray |-> 0,
     sockets |-> <<"connecting">>, history |-> <<>>, published |-> 0]

HookFrame ==
    UNCHANGED <<storeVars, linkVars, wsVars, broadcastFn, demoInterval, resp, stream, now,
                nDemo, nTicks, nAttempts, nErrors, lastLine, phase, demoTimers, lim>>

\* ws.onopen on socket k
SocketOpen(k) ==
    /\ k \in 1..Len(hook.sockets)
    /\ hook.sockets[k] = "connecting"
    /\ hook' = [hook EXCEPT !.sockets[k] = "open"]
    /\ HookFrame

\* ws.onclose on socket k (closed by the hook, by the server or by the
\* network): wsRef.current = null, and a reconnect timeout is set whose
\* handle replaces the one in the ref
SocketClosed(k) ==
    /\ k \in 1..Len(hook.sockets)
    /\ hook.sockets[k] \in {"connecting", "open", "closing"}
    /\ hook' = [hook EXCEPT !.sockets[k] = "closed",
                            !.wsRef = 0,
                            !.stray = IF hook.reconnectTimerRef = "live" THEN @ + 1 ELSE @,
                            !.reconnectTimerRef = "live"]
    /\ HookFrame

\* a reconnect timeout fires: the one of the ref, or one no ref holds
HookTimerFire(ofRef) ==
    /\ Len(hook.sockets) < MaxSockets
    /\ IF ofRef
       THEN /\ hook.reconnectTimerRef = "live"
            /\ hook' = connect([hook EXCEPT !.reconnectTimerRef = "fired"])
       ELSE /\ hook.stray > 0
            /\ hook' = connect([hook EXCEPT !.stray = @ - 1])
    /\ HookFrame

\* reconnect(), from the dashboard's button
Reconnect ==
    /\ hook.mounted
    /\ Len(hook.sockets) < MaxSockets
    /\ hook' = connect(hook)
    /\ HookFrame

\* the mount effect's cleanup
Unmount ==
    /\ hook.mounted
    /\ hook' = [ClearHookTimer(CloseSocket(hook, hook.wsRef)) EXCEPT !.mounted = FALSE]
    /\ HookFrame

RECURSIVE OnReading(_, _, _)
\* ws.onmessage, case 'reading', on each of the sockets k..Len that is open:
\* setHistory(prev => [...prev, message.data].slice(-MAX_HISTORY))
OnReading(h, k, r) ==
    IF k > Len(h.sockets) THEN h
    ELSE IF h.sockets[k] = "open"
    THEN OnReading([h EXCEPT !.history = KeepLast(Append(@, r), MAX_HISTORY)], k + 1, r)
    ELSE OnReading(h, k + 1, r)

\* the server publishes a reading: every open socket of the hook receives it
ReadingMessage ==
    /\ hook.published < HookReadings
    /\ hook' = OnReading([hook EXCEPT !.published = @ + 1], 1, hook.published + 1)
    /\ HookFrame

(***************************************************************************)
(* useSimulinkStream: the dashboard's view of the external samples.  A     *)
(* sample of the hook is "real" (from the server) or "mock" (generated in  *)
(* the browser).                                                           *)
(***************************************************************************)
Tags(n, tag) == [i \in 1..n |-> tag]

\* The hook after its first render and effects: loadHistory waits for its
\* fetch, the status interval runs, no mock interval (samples is empty).
StreamMounted ==
    [isLoading |-> TRUE, samples |-> <<>>, lastUpdateTimeRef |-> 0,
     connectionStatus |-> "no-data", demoInterval |-> FALSE,
     nEvents |-> 0, gotReal |-> FALSE]

\* The effect of lines 110-133 runs again when samples.length has changed:
\* its cleanup clears the mock interval, and a new one is set while no live
\* sample has arrived and samples is not empty.
RerunDemoEffect(st, before) ==
    IF Len(st.samples) = Len(before.samples) THEN st
    ELSE [st EXCEPT !.demoInterval = st.lastUpdateTimeRef = 0 /\ Len(st.samples) > 0]

\* loadHistory once its fetch has an outcome: the server's answer to
\* GET /api/sim/history?limit=1000, or a failure
LoadHistoryDone(ok) ==
    /\ stream.isLoading
    /\ LET answer == getSimulinkHistory(samples, Num(FetchLimit))
           real == ok /\ Len(answer) > 0
           got == IF real THEN Tags(Len(answer), "real")
                  ELSE Tags(MockSeriesLen, "mock")
           st == [stream EXCEPT !.samples = got,
                                !.connectionStatus = "idle",
                                !.isLoading = FALSE,
                                !.gotReal = @ \/ real]
       IN  stream' = RerunDemoEffect(st, stream)
    /\ UNCHANGED <<storeVars, linkVars, wsVars, broadcastFn, demoInterval, resp, now,
                   hook, nDemo, nTicks, nAttempts, nErrors, lastLine, phase, demoTimers, lim>>

\* handleSimulinkMessage: a 'simulink-sample' window event, one at most for
\* each sample the server has accepted
HandleSimulinkMessage ==
    /\ stream.nEvents < Len(pushedS)
    /\ LET st == [stream EXCEPT !.samples = KeepLast(Append(@, "real"), MAX_SAMPLES),
                                !.lastUpdateTimeRef = now,
                                !.connectionStatus = "live",
                                !.nEvents = @ + 1,
                                !.gotReal = TRUE]
       IN  stream' = RerunDemoEffect(st, stream)
    /\ UNCHANGED <<storeVars, linkVars, wsVars, broadcastFn, demoInterval, resp, now,
                   hook, nDemo, nTicks, nAttempts, nErrors, lastLine, phase, demoTimers, lim>>

\* the mock interval's callback (every 100 ms)
StreamDemoTick ==
    /\ stream.demoInterval
    /\ LET st == [stream EXCEPT !.samples = KeepLast(Append(@, "mock"), MockKeep),
                                !.connectionStatus = "idle"]
       IN  stream' = RerunDemoEffect(st, stream)
    /\ UNCHANGED <<storeVars, linkVars, wsVars, broadcastFn, demoInterval, resp, now,
                   hook, nDemo, nTicks, nAttempts, nErrors, lastLine, phase, demoTimers, lim>>

\* the status interval's callback (every second)
StreamStatusTick ==
    /\ stream' = IF Len(stream.samples) = 0
                 THEN [stream EXCEPT !.connectionStatus = "no-data"]
                 ELSE IF now - stream.lastUpdateTimeRef > StaleAfter
                         /\ stream.lastUpdateTimeRef > 0
                 THEN [stream EXCEPT !.connectionStatus = "idle"]
                 ELSE stream
    /\ UNCHANGED <<storeVars, linkVars, wsVars, broadcastFn, demoInterval, resp, now,
                   hook, nDemo, nTicks, nAttempts, nErrors, lastLine, phase, demoTimers, lim>>

\* a second passes
Advance ==
    /\ now < MaxNow
    /\ now' = now + 1
    /\ UNCHANGED <<storeVars, linkVars, wsVars, broadcastFn, demoInterval, resp, stream,
                   hook, nDemo, nTicks, nAttempts, nErrors, lastLine, phase, demoTimers, lim>>

(***************************************************************************)
(* Specifications.                                                         *)
(***************************************************************************)
\* The state once start() has run to its first await: initSerial has set the
\* configuration from the environment and connectSerial waits for port.open.
InitWith(budget) ==
    /\ readings = <<>>
    /\ samples = <<>>
    /\ broadcastFn = FALSE
    /\ port = 1
    /\ ports = <<[st |-> "opening", opener |-> "start", closer |-> "none",
                  path |-> "COM8", baud |-> "9600"]>>
    /\ currentConfig = [port |-> "COM8", baudRate |-> "9600"]
    /\ reconnectTimer = "null"
    /\ timers = 0
    /\ demoInterval = FALSE
    /\ demoTimers = 0
    /\ readyState = [c \in Clients |-> "none"]
    /\ inbox = [c \in Clients |-> <<>>]
    /\ resp = NoResp
    /\ pushedR = <<>>
    /\ pushedS = <<>>
    /\ regAt = [c \in Clients |-> [nR |-> 0, nS |-> 0, nD |-> 0]]
    /\ pubSince = [c \in Clients |-> 0]
    /\ nDemo = 0
    /\ nTicks = 0
    /\ nAttempts = 1
    /\ nErrors = 0
    /\ lastLine = NoLine
    /\ phase = "running"
    /\ stream = StreamMounted
    /\ now = 1
    /\ hook = HookMounted
    /\ lim = budget

\* The whole server.
Init ==
    InitWith([lines |-> MaxLines, posts |-> MaxPosts, ticks |-> MaxTicks,
              attempts |-> MaxAttempts, errors |-> MaxErrors, clients |-> 2])

Next ==
    \/ \E p \in 1..MaxAttempts, ok \in BOOLEAN : OpenDone(p, ok)
    \/ \E q \in 1..MaxAttempts : CloseDone(q)
    \/ \E p \in 1..MaxAttempts : PortCloseEvent(p)
    \/ \E p \in 1..MaxAttempts : PortErrorEvent(p)
    \/ TimerFire
    \/ \E body \in SettingsBodies : PostSettings(body)
    \/ \E p \in 1..MaxAttempts, line \in Lines : SerialData(p, line)
    \/ DemoTick
    \/ \E body \in Bodies : PostData(body)
    \/ \E c \in Clients : Register(c)
    \/ \E c \in Clients : ClientClosing(c)
    \/ \E c \in Clients : ClientClosed(c)
    \/ \E q \in Queries : GetReadingsHistoryRoute(q)
    \/ \E q \in Queries : GetSimHistoryRoute(q)
    \/ \E n \in -1..MaxLimit : CallGetReadingsHistory(n)
    \/ GetLatestRoute
    \/ GetSimFieldsRoute
    \/ Sigint

Spec == Init /\ [][Next]_vars

\* The histories and the read routes: the device connects or not at startup,
\* then lines and samples arrive and the routes are queried.
InitStore ==
    InitWith([lines |-> StoreLines, posts |-> StorePosts, ticks |-> 0,
              attempts |-> 1, errors |-> 0, clients |-> 0])

\* the lines of a device that sends well-formed readings and debug text
StoreLineSet ==
    { Obj(ValidMembers),
      <<Tok("DEBUG"), Tok("txt")>> }

NextStore ==
    \/ \E ok \in BOOLEAN : OpenDone(1, ok)
    \/ \E line \in StoreLineSet : SerialData(1, line)
    \/ \E body \in Bodies : PostData(body)
    \/ \E q \in Queries : GetReadingsHistoryRoute(q)
    \/ \E q \in Queries : GetSimHistoryRoute(q)
    \/ \E n \in -1..MaxLimit : CallGetReadingsHistory(n)
    \/ GetLatestRoute
    \/ GetSimFieldsRoute

SpecStore == InitStore /\ [][NextStore]_vars


\* The device link and demo mode: connects, failures, transport events,
\* reconnects and configuration updates, with the demo interval ticking.
InitLink ==
    InitWith([lines |-> LinkLines, posts |-> 0, ticks |-> MaxTicks,
              attempts |-> LinkAttempts, errors |-> MaxErrors, clients |-> 0])

NextLink ==
    \/ \E p \in 1..MaxAttempts, ok \in BOOLEAN : OpenDone(p, ok)
    \/ \E q \in 1..MaxAttempts : CloseDone(q)
    \/ \E p \in 1..MaxAttempts : PortCloseEvent(p)
    \/ \E p \in 1..MaxAttempts : PortErrorEvent(p)
    \/ TimerFire
    \/ \E body \in SettingsBodies : PostSettings(body)
    \/ \E p \in 1..MaxAttempts, line \in StoreLineSet : SerialData(p, line)
    \/ DemoTick

SpecLink == InitLink /\ [][NextLink]_vars

\* The live channel: clients register and leave while device readings, demo
\* readings and external samples are published.
InitWs ==
    InitWith([lines |-> WsLines, posts |-> WsPosts, ticks |-> WsTicks,
              attempts |-> 1, errors |-> 0, clients |-> 2])

\* a producer whose samples all carry signal "a", and one malformed body
WsBodies == {b \in Bodies : b.data.keys = {"a"} /\ b.time.t # "string"}

\* the lines of a device that sends well-formed readings only
WsLineSet == { Obj(ValidMembers) }

NextWs ==
    \/ \E ok \in BOOLEAN : OpenDone(1, ok)
    \/ \E line \in WsLineSet : SerialData(1, line)
    \/ DemoTick
    \/ \E body \in WsBodies : PostData(body)
    \/ \E c \in Clients : Register(c)
    \/ \E c \in Clients : ClientClosing(c)
    \/ \E c \in Clients : ClientClosed(c)

SpecWs == InitWs /\ [][NextWs]_vars

\* The line parser: the device connects and sends lines of every kind.
InitParse ==
    InitWith([lines |-> ParseLines, posts |-> 0, ticks |-> 0,
              attempts |-> 1, errors |-> 0, clients |-> 0])

NextParse ==
    \/ \E ok \in BOOLEAN : OpenDone(1, ok)
    \/ \E line \in Lines : SerialData(1, line)
    \/ \E n \in -1..MaxLimit : CallGetReadingsHistory(n)

SpecParse == InitParse /\ [][NextParse]_vars

\* The device feed: the device sends lines of every kind while clients
\* register and leave.
InitFeed ==
    InitWith([lines |-> FeedLines, posts |-> 0, ticks |-> 0,
              attempts |-> 1, errors |-> 0, clients |-> 2])

NextFeed ==
    \/ \E ok \in BOOLEAN : OpenDone(1, ok)
    \/ \E line \in Lines : SerialData(1, line)
    \/ \E c \in Clients : Register(c)
    \/ \E c \in Clients : ClientClosing(c)
    \/ \E c \in Clients : ClientClosed(c)

SpecFeed == InitFeed /\ [][NextFeed]_vars

\* Ingestion: a producer posts bodies of every kind from the moment the
\* server listens, while the startup connect completes and clients register
\* and leave.
InitIngest ==
    InitWith([lines |-> 0, posts |-> IngestPosts, ticks |-> 0,
              attempts |-> 1, errors |-> 0, clients |-> 2])

NextIngest ==
    \/ \E ok \in BOOLEAN : OpenDone(1, ok)
    \/ \E body \in IngestBodies : PostData(body)
    \/ \E c \in Clients : Register(c)
    \/ \E c \in Clients : ClientClosing(c)
    \/ \E c \in Clients : ClientClosed(c)
    \/ GetSimFieldsRoute

SpecIngest == InitIngest /\ [][NextIngest]_vars

\* Shutdown: the link and demo mode run, clients come and go, and SIGINT
\* arrives at any moment.
InitShutdown ==
    InitWith([lines |-> 0, posts |-> 0, ticks |-> MaxTicks,
              attempts |-> LinkAttempts, errors |-> MaxErrors, clients |-> 1])

NextShutdown ==
    \/ \E p \in 1..MaxAttempts, ok \in BOOLEAN : OpenDone(p, ok)
    \/ \E q \in 1..MaxAttempts : CloseDone(q)
    \/ \E p \in 1..MaxAttempts : PortCloseEvent(p)
    \/ \E p \in 1..MaxAttempts : PortErrorEvent(p)
    \/ TimerFire
    \/ \E body \in SettingsBodies : PostSettings(body)
    \/ DemoTick
    \/ \E c \in Clients : Register(c)
    \/ \E c \in Clients : ClientClosed(c)
    \/ Sigint

SpecShutdown == InitShutdown /\ [][NextShutdown]_vars

\* Configuration updates: POST /api/settings/serial arrives in any state of
\* the link, with another endpoint, another line rate, or a rate that is
\* not a number.
InitConfig ==
    InitWith([lines |-> 0, posts |-> 0, ticks |-> 0,
              attempts |-> ConfigAttempts, errors |-> 0, clients |-> 0])

ConfigBodies ==
    { [port |-> "COM9", baudRate |-> "9600"],
      [port |-> "COM8", baudRate |-> "115200"],
      [port |-> "COM9", baudRate |-> "fast"] }

NextConfig ==
    \/ \E p \in 1..ConfigAttempts, ok \in BOOLEAN : OpenDone(p, ok)
    \/ \E q \in 1..ConfigAttempts : CloseDone(q)
    \/ \E p \in 1..ConfigAttempts : PortCloseEvent(p)
    \/ TimerFire
    \/ \E body \in ConfigBodies : PostSettings(body)

SpecConfig == InitConfig /\ [][NextConfig]_vars

\* Retries: opens fail and the device is unplugged while connect attempts
\* remain, the endpoint is openable from then on; timers fire and pending
\* opens and closes complete.
InitRetry ==
    InitWith([lines |-> 0, posts |-> 0, ticks |-> 0,
              attempts |-> RetryAttempts, errors |-> 0, clients |-> 1])

RetryBodies == {body \in ConfigBodies : ValidBaud(body)}

NextRetry ==
    \/ \E p \in 1..RetryAttempts : OpenDone(p, TRUE)
    \/ \E p \in 1..RetryAttempts : nAttempts < lim.attempts /\ OpenDone(p, FALSE)
    \/ \E q \in 1..RetryAttempts : CloseDone(q)
    \/ \E p \in 1..RetryAttempts : nAttempts < lim.attempts /\ PortCloseEvent(p)
    \/ TimerFire
    \/ \E body \in RetryBodies : PostSettings(body)
    \/ Register(1)

\* a pending timeout fires, a pending close completes, and an open of the
\* openable endpoint succeeds
RetryFairness ==
    /\ WF_vars(TimerFire)
    /\ \A p \in 1..RetryAttempts : WF_vars(OpenDone(p, TRUE))
    /\ \A q \in 1..RetryAttempts : WF_vars(CloseDone(q))

SpecRetry == InitRetry /\ [][NextRetry]_vars /\ RetryFairness

\* The dashboard's external-sample view: samples are posted to the server,
\* the hook loads the history, receives live samples and polls its status
\* while time passes.
InitStream ==
    InitWith([lines |-> 0, posts |-> StreamPosts, ticks |-> 0,
              attempts |-> 1, errors |-> 0, clients |-> 0])

NextStream ==
    \/ \E body \in WsBodies : PostData(body)
    \/ \E ok \in BOOLEAN : LoadHistoryDone(ok)
    \/ HandleSimulinkMessage
    \/ StreamDemoTick
    \/ StreamStatusTick
    \/ Advance

SpecStream == InitStream /\ [][NextStream]_vars

\* The dashboard's live-channel hook: sockets open and close, the user
\* reconnects, timeouts fire, readings arrive, the component unmounts.
InitHook ==
    InitWith([lines |-> 0, posts |-> 0, ticks |-> 0,
              attempts |-> 1, errors |-> 0, clients |-> 0])

NextHook ==
    \/ \E k \in 1..MaxSockets : SocketOpen(k)
    \/ \E k \in 1..MaxSockets : SocketClosed(k)
    \/ \E ofRef \in BOOLEAN : HookTimerFire(ofRef)
    \/ Reconnect
    \/ Unmount
    \/ ReadingMessage

SpecHook == InitHook /\ [][NextHook]_vars

\* Demo mode: startup and update_config requests whose opens succeed or
\* fail, with a dashboard connected and the clock ticking.
InitDemo ==
    InitWith([lines |-> 0, posts |-> 0, ticks |-> DemoTicks,
              attempts |-> DemoAttempts, errors |-> 0, clients |-> 1])

\* the update_config request: another endpoint, asked for again and again
DemoBodies == { [port |-> "COM9", baudRate |-> "9600"] }

NextDemo ==
    \/ \E p \in 1..DemoAttempts, ok \in BOOLEAN : OpenDone(p, ok)
    \/ \E q \in 1..DemoAttempts : CloseDone(q)
    \/ TimerFire
    \/ \E body \in DemoBodies : PostSettings(body)
    \/ DemoTick
    \/ Register(1)

SpecDemo == InitDemo /\ [][NextDemo]_vars


(***************************************************************************)
(* Properties.                                                             *)
(***************************************************************************)
\* the last k elements of s
LastN(s, k) == SubSeq(s, Len(s) - k + 1, Len(s))

\* the position of a field name in the ascending order of names
Rank(name) == CHOOSE i \in 1..Len(FieldNames) : FieldNames[i] = name

Ascending(fs) == \A i, j \in 1..Len(fs) : i < j => Rank(fs[i]) < Rank(fs[j])

\* the samples the history retains, told from the pushes alone
Retained == LastN(pushedS, Min(maxSamples, Len(pushedS)))

C7_BoundedHistories ==
    /\ Len(readings) <= MAX_READINGS
    /\ Len(samples) <= maxSamples
    /\ readings = LastN(pushedR, Min(MAX_READINGS, Len(pushedR)))
    /\ samples = LastN(pushedS, Min(maxSamples, Len(pushedS)))

\* both histories have evicted
C7_Witness ==
    /\ Len(pushedR) > MAX_READINGS
    /\ Len(pushedS) > maxSamples
    /\ Len(readings) = MAX_READINGS
    /\ Len(samples) = maxSamples

\* C8 as claimed: history(n), n >= 0, returns exactly the min(n, length) most
\* recent items, oldest first, for both histories.
C8_HistoryLastN ==
    /\ (resp.route = "sim/history" /\ resp.q.kind = "num") =>
            /\ resp.data = LastN(samples, Min(resp.q.n, Len(samples)))
            /\ Len(resp.data) <= resp.q.n
    /\ (resp.route = "getReadingsHistory" /\ resp.n >= 0) =>
            /\ resp.data = LastN(readings, Min(resp.n, Len(readings)))
            /\ Len(resp.data) <= resp.n

\* C9 as claimed: without a limit, history() returns the full buffer, for the
\* device history and for the external-sample history.
C9_NoLimitFull ==
    /\ (resp.route = "sim/history" /\ resp.q.kind = "absent") => resp.data = samples
    /\ (resp.route = "readings/history" /\ resp.q.kind = "absent") => resp.data = readings
    /\ (resp.route = "getReadingsHistory" /\ resp.n = -1) => resp.data = readings

\* C9 as amended: without a limit, the external-sample history is returned in
\* full; the device history returns its min(default limit, length) most
\* recent readings, oldest first (default limit: 100 in the source).
C9_NoLimitDefault ==
    /\ (resp.route = "sim/history" /\ resp.q.kind = "absent") => resp.data = samples
    /\ (resp.route = "readings/history" /\ resp.q.kind = "absent") =>
            resp.data = LastN(readings, Min(DefaultLimit, Len(readings)))
    /\ (resp.route = "getReadingsHistory" /\ resp.n = -1) =>
            resp.data = LastN(readings, Min(DefaultLimit, Len(readings)))

\* the device history holds more than the default limit and is asked without one
C9_Witness ==
    /\ resp.route = "getReadingsHistory"
    /\ resp.n = -1
    /\ Len(readings) > DefaultLimit
    /\ Len(samples) > DefaultLimit


\* C2 as claimed: when the transport of the connected link closes, demo
\* readings start within one tick: the demo interval exists after the step.
C2_DemoStartsOnDisconnect ==
    [][(isSerialConnected /\ PortCloseEvent(port)) => demoInterval']_vars

\* C3 as claimed: a demo reading is appended to the device history when it is
\* generated, like a device reading.
C3_DemoReadingStored ==
    [][(nDemo' = nDemo + 1) =>
          /\ Len(pushedR') = Len(pushedR) + 1
          /\ Len(readings') > 0
          /\ readings'[Len(readings')] = generateDemoReading(Clock)]_vars

\* The interval's own check: no demo reading is generated by a tick that finds
\* isSerialConnected() true, whichever connect opened the port it refers to.
NoDemoWhileReportedOpen ==
    [][(nDemo' # nDemo) => ~isSerialConnected]_vars

\* C4 as claimed: no demo reading is generated while the link is Open, that
\* is, while a transport that a connect attempt opened successfully has not
\* closed, whichever connect opened it.
C4_NoDemoWhileOpen ==
    [][(nDemo' # nDemo) => \A p \in DOMAIN ports : ports[p].st # "open"]_vars

\* what client c was sent at registration, told from the pushes alone
SnapR(c) ==
    LET before == SubSeq(pushedR, 1, regAt[c].nR)
    IN  LastN(before, Min(WsHistoryLimit, Min(MAX_READINGS, Len(before))))
SnapS(c) ==
    LET before == SubSeq(pushedS, 1, regAt[c].nS)
    IN  LastN(before, Min(WsSimLimit, Min(maxSamples, Len(before))))
\* the length of the greeting, and the messages after it
GreetLen(c) == Len(SnapS(c)) + 2
Live(c) == SubSeq(inbox[c], GreetLen(c) + 1, Len(inbox[c]))

\* C5: a registered client's messages start with one history message (the most
\* recent stored readings, oldest first), then the most recent stored samples
\* in stored order, then the welcome status; no history message and no
\* welcome comes later, and nothing else comes before.
C5_GreetingOrder ==
    \A c \in Clients : readyState[c] # "none" =>
        /\ Len(inbox[c]) >= GreetLen(c)
        /\ inbox[c][1] = HistoryMsg(SnapR(c))
        /\ \A i \in 1..Len(SnapS(c)) : inbox[c][i + 1] = SimMsg(SnapS(c)[i])
        /\ inbox[c][GreetLen(c)] = Welcome
        /\ \A i \in 1..Len(Live(c)) :
              /\ Live(c)[i].type # "history"
              /\ Live(c)[i] # Welcome

\* a client registered when more readings were stored than the history
\* message holds and samples were stored, and has received live events since
C5_Witness ==
    /\ readyState[1] = "open"
    /\ regAt[1].nR > WsHistoryLimit
    /\ regAt[1].nS > 0
    /\ Len(Live(1)) >= 1

\* the readings and the samples of a sequence of messages, in order
ReadingsOf(ms) == SelectSeq(ms, LAMBDA m : m.type = "reading")
SamplesOf(ms) == SelectSeq(ms, LAMBDA m : m.type = "simulink-sample")

\* The registration handler against the stored histories, for a registered
\* client c: (a) an open client has received every message broadcast since
\* it registered, once, and a client that left no more than that; (b) live
\* readings and live samples arrive in publish order without repetition;
\* (c) nothing of the snapshot is delivered again live; (d) every reading
\* stored since registration is in the live feed of an open client, and the
\* last reading and sample stored before registration are in its snapshot.
RegistrationAtomic(c) ==
    LET lr == ReadingsOf(Live(c))
        ls == SamplesOf(Live(c))
    IN  /\ Len(Live(c)) <= pubSince[c]
        /\ readyState[c] = "open" => Len(Live(c)) = pubSince[c]
        /\ \A i, j \in 1..Len(lr) : i < j => lr[i].data.ts.n < lr[j].data.ts.n
        /\ \A i, j \in 1..Len(ls) : i < j => ls[i].payload.time < ls[j].payload.time
        /\ \A i \in 1..Len(lr) : \A k \in 1..Len(SnapR(c)) :
              lr[i].data.ts.n > SnapR(c)[k].ts.n
        /\ \A i \in 1..Len(ls) : \A k \in 1..Len(SnapS(c)) :
              ls[i].payload.time > SnapS(c)[k].time
        /\ readyState[c] = "open" =>
              \A k \in (regAt[c].nR + 1)..Len(pushedR) :
                  \E i \in 1..Len(lr) : lr[i].data = pushedR[k]
        /\ regAt[c].nR > 0 => pushedR[regAt[c].nR] \in Range(inbox[c][1].hist)
        /\ regAt[c].nS > 0 =>
              \E i \in 2..GreetLen(c) : inbox[c][i] = SimMsg(pushedS[regAt[c].nS])

StoredEventsAtomic ==
    \A c \in Clients : readyState[c] # "none" => RegistrationAtomic(c)

\* the instant of the reading published last before client c registered,
\* a device reading or a demo reading (0 when none was published)
LastPublishedBefore(c) == regAt[c].nR + regAt[c].nD

\* C6 as claimed: for a registered client, whatever was published before and
\* after its registration, no event is delivered twice or out of order, none
\* published after the registration is missing from the live feed, and the
\* reading published last before the registration is in the snapshot.
C6_NoDuplicateNoLoss ==
    \A c \in Clients : readyState[c] # "none" =>
        /\ RegistrationAtomic(c)
        /\ LastPublishedBefore(c) > 0 =>
              \E k \in 1..Len(inbox[c][1].hist) :
                  inbox[c][1].hist[k].ts.n = LastPublishedBefore(c)

\* a JavaScript number that is neither NaN nor infinite
Finite(x) == x.t = "number" /\ x.v \notin {"NaN", "Infinity", "-Infinity"}

\* C10 as claimed: every reading in the device history has the four sensor
\* fields, each a finite number.
C10_StoredReadingsFinite ==
    \A i \in 1..Len(readings) : \A key \in SensorKeys :
        /\ key \in DOMAIN readings[i]
        /\ Finite(readings[i][key])


\* The kinds of line that carry no valid payload, told from the tokens:
\* blank; without a "{" followed by a "}"; with a payload that JSON.parse
\* refuses; with a parsed payload in which a sensor field is missing, is not
\* a number, or is NaN.
Blank(line) == \A i \in 1..Len(line) : line[i].k = "sp"

HasPayload(line) ==
    \E i, j \in 1..Len(line) : i < j /\ line[i].k = "{" /\ line[j].k = "}"

PayloadOf(line) ==
    LET first == CHOOSE i \in 1..Len(line) :
                    line[i].k = "{" /\ \A h \in 1..(i - 1) : line[h].k # "{"
        last == CHOOSE j \in 1..Len(line) :
                    line[j].k = "}" /\ \A h \in (j + 1)..Len(line) : line[h].k # "}"
    IN  SubSeq(line, first, last)

SchemaViolation(obj) ==
    \E key \in SensorKeys :
        \/ key \notin DOMAIN obj
        \/ obj[key].t # "number"
        \/ obj[key].v = "NaN"

NoValidPayload(line) ==
    \/ Blank(line)
    \/ ~HasPayload(line)
    \/ ~JsonParses(PayloadOf(line))
    \/ SchemaViolation(JsonParse(PayloadOf(line)))

\* C11: a line that is blank, carries no payload, carries a payload that does
\* not parse, or carries a parsed payload that fails validation leaves the
\* device history, every client's messages and the link unchanged, so the
\* lines that follow are processed as before.
C11_BadLineDropped ==
    [][\A p \in DOMAIN ports :
          LET line == lastLine'.line
          IN  (NoValidPayload(line) /\ SerialData(p, line)) =>
                  /\ UNCHANGED <<readings, pushedR, samples, inbox, pubSince>>
                  /\ UNCHANGED linkVars]_vars

\* a line without a valid payload was dropped and the line after it yielded
\* the reading that is now the latest of the history
C11_Witness ==
    /\ lastLine.at >= 0
    /\ lastLine.afterDrop
    /\ ~NoValidPayload(lastLine.line)
    /\ Len(pushedR) = lastLine.at + 1
    /\ Len(readings) > 0
    /\ readings[Len(readings)] = pushedR[Len(pushedR)]
    /\ readyState[1] = "open"
    /\ regAt[1].nR = 0
    /\ Len(ReadingsOf(Live(1))) = 1


\* the reading a line with a valid payload yields at instant `at`: the
\* payload's members and the server's timestamp
ReadingOf(line, at) ==
    LET obj == JsonParse(PayloadOf(line))
    IN  [key \in (DOMAIN obj) \cup {"ts"} |-> IF key = "ts" THEN Ts(at) ELSE obj[key]]

\* C12: a line with a valid payload that arrives on an open port yields
\* exactly one reading: it becomes the newest item of the device history,
\* and in the same step every open client is sent its reading event once
\* and no other client is sent anything, so the reading is in the history
\* when a client has the event.
C12_ValidLineStoredThenBroadcast ==
    [][\A p \in DOMAIN ports :
          LET line == lastLine'.line
              r == ReadingOf(line, Clock)
          IN  (~NoValidPayload(line) /\ SerialData(p, line)) =>
                  /\ pushedR' = Append(pushedR, r)
                  /\ Len(readings') > 0
                  /\ readings'[Len(readings')] = r
                  /\ \A c \in Clients :
                        inbox'[c] = IF readyState[c] = "open"
                                    THEN Append(inbox[c], ReadingMsg(r))
                                    ELSE inbox[c]]_vars

\* a reading has just been stored and sent to the open client 1, while
\* client 2, registered and no longer open, was sent nothing
C12_Witness ==
    /\ lastLine.at >= 0
    /\ ~NoValidPayload(lastLine.line)
    /\ Len(pushedR) = lastLine.at + 1
    /\ readyState[1] = "open"
    /\ readyState[2] \in {"closing", "closed"}
    /\ Len(Live(1)) > 0
    /\ Live(1)[Len(Live(1))] = ReadingMsg(readings[Len(readings)])
    /\ Len(Live(2)) = 0


\* a body the claim has rejected: its time is no finite number, or its data
\* is no object
BadBody(body) ==
    \/ body.time.t # "number"
    \/ body.time.v # "finite"
    \/ body.data.t # "object"
    \/ body.data.null

\* C13 as claimed: a body whose time is not a finite number or whose data is
\* not an object is answered 400, and the external-sample history (hence the
\* known fields) and every client's messages are unchanged.
C13_BadBodyRejected ==
    [][\A body \in IngestBodies :
          (BadBody(body) /\ PostData(body)) =>
              /\ resp'.status = 400
              /\ UNCHANGED <<samples, pushedS, inbox, pubSince>>]_vars


\* C14 as claimed: a sample that ingest accepts (answer 200) is appended to
\* the external-sample history and, in the same step, sent as one
\* simulink-sample event to every client that is open, whenever it arrives.
C14_AcceptedSampleBroadcast ==
    [][\A body \in IngestBodies :
          (PostData(body) /\ resp'.status = 200) =>
              /\ pushedS' = Append(pushedS, Sample(body))
              /\ samples'[Len(samples')] = Sample(body)
              /\ \A c \in Clients :
                    inbox'[c] = IF readyState[c] = "open"
                                THEN Append(inbox[c], SimMsg(Sample(body)))
                                ELSE inbox[c]]_vars

\* the samples the history retained when client c registered
RetainedAt(c) ==
    LET before == SubSeq(pushedS, 1, regAt[c].nS)
    IN  LastN(before, Min(maxSamples, Len(before)))

\* the simulink-sample messages client c was sent before its welcome
Burst(c) ==
    LET w == CHOOSE i \in 1..Len(inbox[c]) :
                inbox[c][i] = Welcome /\ \A h \in 1..(i - 1) : inbox[c][h] # Welcome
    IN  SubSeq(inbox[c], 2, w - 1)

\* C15 as claimed: the snapshot sent to a newly registered client holds
\* every sample the external-sample history retained at that moment.
C15_SnapshotAllRetained ==
    \A c \in Clients : readyState[c] # "none" =>
        Burst(c) = [i \in 1..Len(RetainedAt(c)) |-> SimMsg(RetainedAt(c)[i])]

\* C15 as amended: the snapshot holds the most recent samples retained at
\* that moment, in stored order, up to the handler's limit (1000 in the
\* source, against a capacity of 2000), hence all of them only while no
\* more than that limit are retained.
C15_SnapshotMostRecent ==
    \A c \in Clients : readyState[c] # "none" =>
        LET k == Min(WsSimLimit, Len(RetainedAt(c)))
            recent == LastN(RetainedAt(c), k)
        IN  /\ Burst(c) = [i \in 1..k |-> SimMsg(recent[i])]
            /\ Len(RetainedAt(c)) <= WsSimLimit =>
                  Len(Burst(c)) = Len(RetainedAt(c))

\* a client registered while the history retained more samples than the
\* handler's limit
C15_Witness ==
    /\ readyState[1] = "open"
    /\ Len(RetainedAt(1)) > WsSimLimit
    /\ Len(Burst(1)) = WsSimLimit


\* C16: in every reachable state at most one reconnect timeout is pending,
\* and it is the one reconnectTimer refers to: every scheduling clears the
\* pending timeout before it arms the new one, whatever the sequence of open
\* failures, transport errors, transport closes and connects.
C16_OnePendingReconnect ==
    /\ timers <= 1
    /\ timers = 1 <=> reconnectTimer = "live"

\* a reconnect was scheduled by a transport error and scheduled again by the
\* close of the same transport before the first timeout fired
C16_Witness ==
    /\ Len(ports) = 1
    /\ nAttempts = 1
    /\ nErrors = 1
    /\ ports[1].st = "closed"
    /\ timers = 1


\* the SerialPort objects of connect attempts that have started and have not
\* had their open result: the attempt waits for the close it asked for, or
\* for port.open
InProgress ==
    {p \in 1..Len(ports) : ports[p].st \in {"closing", "opening"}}

\* C17 as claimed: two connection attempts are never in progress at the same
\* time; a connect attempt starts only when no other attempt is between its
\* start and its open result.
C17_OneAttemptAtATime ==
    Cardinality(InProgress) <= 1


\* C18 as claimed: once shutdown has been initiated no demo reading is
\* generated, no connect attempt starts, and no device transport is open.
C18_ShutdownStopsLink ==
    [][phase' # "running" =>
          /\ nDemo' = nDemo
          /\ nAttempts' = nAttempts
          /\ \A p \in 1..Len(ports') : ports'[p].st # "open"]_vars


\* what client c is sent in the step
Sent(c) == SubSeq(inbox'[c], Len(inbox[c]) + 1, Len(inbox'[c]))

\* the event of a step that stores a device reading, generates a demo
\* reading or stores a sample while the sample callback is installed
Published ==
    IF pushedR' # pushedR THEN <<ReadingMsg(pushedR'[Len(pushedR')])>>
    ELSE IF nDemo' # nDemo THEN <<ReadingMsg(generateDemoReading(Clock))>>
    ELSE IF pushedS' # pushedS /\ broadcastFn THEN <<SimMsg(pushedS'[Len(pushedS')])>>
    ELSE <<>>

\* C19: a publish (reading, sample or status) appends the event to the
\* messages of every registered client that is open and of no client that
\* is not open; open clients all receive the same events, however many
\* clients are closing or closed.
C19_PublishToOpenOnly ==
    [][\A c \in Clients : readyState[c] # "none" =>
          LET k == pubSince'[c] - pubSince[c]
          IN  IF readyState[c] = "open"
              THEN /\ Len(inbox'[c]) = Len(inbox[c]) + k
                   /\ SubSeq(inbox'[c], 1, Len(inbox[c])) = inbox[c]
                   /\ Published # <<>> => Sent(c) = Published
                   /\ Published = <<>> =>
                         \A i \in 1..k : Sent(c)[i].type = "status"
                   /\ \A d \in Clients : readyState[d] = "open" => Sent(d) = Sent(c)
              ELSE inbox'[c] = inbox[c]]_vars

\* client 1 is closing and was sent none of the events published since both
\* clients registered; client 2 is open and was sent every one of them
C19_Witness ==
    /\ readyState[1] = "closing"
    /\ readyState[2] = "open"
    /\ pubSince[1] >= 2
    /\ pubSince[2] = pubSince[1]
    /\ Len(Live(1)) = 0
    /\ Len(Live(2)) = pubSince[2]
    /\ Len(ReadingsOf(Live(2))) >= 1
    /\ Len(SamplesOf(Live(2))) >= 1


\* C20 as claimed: update_config, in whatever state the link is, leaves no
\* connection open that was open (it is closed or closing before the new
\* open is attempted); every open that is attempted, then and in later
\* automatic reconnects, uses the endpoint and line rate of the latest
\* update_config, also after a failed open; nothing else changes them.
C20_UpdateConfigReopens ==
    [][/\ \A body \in ConfigBodies :
             PostSettings(body) =>
                 /\ currentConfig' = body
                 /\ \A p \in 1..Len(ports) : ports'[p].st # "open"
       /\ Len(ports') > Len(ports) =>
             /\ ports'[Len(ports')].path = currentConfig'.port
             /\ ports'[Len(ports')].baud = currentConfig'.baudRate
             /\ \A p \in 1..Len(ports) : ports'[p].st # "open"
       /\ currentConfig' # currentConfig =>
             \E body \in ConfigBodies : PostSettings(body)]_vars


\* C21 as claimed: once an open client has handled every message sent to it,
\* its mode is live when the device link is open, and demo when the link is
\* disconnected (not open and no connect attempt under way).
C21_ModeFollowsLink ==
    \A c \in Clients : readyState[c] = "open" =>
        /\ isSerialConnected => connectionStatus(inbox[c]) = "live"
        /\ (~isSerialConnected /\ InProgress = {}) =>
              connectionStatus(inbox[c]) = "demo"


\* C22 as claimed: the external-sample mode is no-data as long as no
\* external sample has ever been received, live while the last sample was
\* received within the last 5 seconds, and idle when the last one received
\* is older than that.
C22_StreamMode ==
    /\ Len(pushedS) = 0 => stream.connectionStatus = "no-data"
    /\ stream.lastUpdateTimeRef > 0 =>
          stream.connectionStatus =
              IF now - stream.lastUpdateTimeRef <= StaleAfter THEN "live" ELSE "idle"


\* C23 as claimed: a transport error, like a transport close, on the open
\* connection of the link sends one status event to the open clients, makes
\* isSerialConnected false and leaves exactly one reconnect timer pending.
C23_ErrorOrCloseDisconnects ==
    [][\A p \in DOMAIN ports :
          (p = port /\ ports[p].st = "open"
                /\ (PortErrorEvent(p) \/ PortCloseEvent(p))) =>
              /\ ~isSerialConnected'
              /\ timers' = 1
              /\ reconnectTimer' = "live"
              /\ \A c \in Clients : readyState[c] = "open" =>
                    /\ Len(inbox'[c]) = Len(inbox[c]) + 1
                    /\ inbox'[c][Len(inbox'[c])].type = "status"]_vars


\* C24: a failed open sends the error status to the open clients, leaves one
\* reconnect timer pending and reports false to its caller (startup and the
\* settings route then start demo mode); a pending timer goes away only by a
\* connect attempt starting; and, the endpoint being openable, a link that
\* is not open is eventually open, at which moment the open clients are sent
\* the info status naming the endpoint that opened.
C24_FailedAttemptRetried ==
    /\ [][\A p \in DOMAIN ports :
             (ports[p].st = "opening" /\ ports'[p].st = "closed"
                   /\ phase' # "exited") =>
                 /\ timers' = 1
                 /\ reconnectTimer' = "live"
                 /\ ports[p].opener \in {"start", "post"} => demoInterval'
                 /\ \A c \in Clients : readyState[c] = "open" =>
                       /\ Len(inbox'[c]) > Len(inbox[c])
                       /\ inbox'[c][Len(inbox[c]) + 1] = NotAvailable]_vars
    /\ [][(timers = 1 /\ timers' = 0 /\ phase' # "exited") =>
             nAttempts' = nAttempts + 1]_vars
    /\ [][(~isSerialConnected /\ isSerialConnected') =>
             \A c \in Clients : readyState[c] = "open" =>
                 inbox'[c] = Append(inbox[c], ConnectedTo(ports'[port'].path))]_vars
    /\ (~isSerialConnected) ~> isSerialConnected

\* the startup open failed, the reconnect timer fired and its open succeeded;
\* the client saw the error status and then the info status
C24_Witness ==
    /\ isSerialConnected
    /\ port = 2
    /\ ports[2].opener = "timer"
    /\ ports[1].opener = "start"
    /\ demoInterval
    /\ readyState[1] = "open"
    /\ \E i \in 1..Len(inbox[1]) : inbox[1][i] = NotAvailable
    /\ inbox[1][Len(inbox[1])] = ConnectedTo("COM8")


\* C25: the two channels are independent.  A device line, stored or
\* dropped, leaves the external-sample history and the known fields as they
\* were; a posted sample, ingested or rejected, leaves the device history
\* and the state of the device link as they were.
C25_ChannelsIndependent ==
    [][/\ \A p \in DOMAIN ports :
             SerialData(p, lastLine'.line) =>
                 /\ samples' = samples
                 /\ pushedS' = pushedS
                 /\ getSimulinkFields(samples') = getSimulinkFields(samples)
       /\ \A body \in Bodies :
             PostData(body) =>
                 /\ readings' = readings
                 /\ pushedR' = pushedR
                 /\ UNCHANGED linkVars]_vars

\* both histories hold entries, the last line was dropped and the last
\* request was a rejected sample
C25_Witness ==
    /\ Len(readings) > 0
    /\ Len(samples) > 1
    /\ lastLine.at >= 0
    /\ NoValidPayload(lastLine.line)
    /\ resp.route = "data"
    /\ resp.status = 400


\* every transport but the current one was closed by the link itself
\* (closeSerial), none failed to open or closed unasked
ReplacedCleanly ==
    \A p \in DOMAIN ports : p # port => ports[p].st = "closed" /\ ports[p].closer # "none"

\* C26 as claimed: when a connect attempt completes and the link is open, no
\* reconnect timer is pending (stated here for a link whose earlier
\* connections were all closed by the link itself, as update_config does),
\* and while the link stays open a timer becomes pending only by a
\* transport error or an unsolicited transport close.
C26_NoReconnectWhileOpen ==
    [][/\ (~isSerialConnected /\ isSerialConnected' /\ ReplacedCleanly) => timers' = 0
       /\ (isSerialConnected /\ isSerialConnected' /\ ReplacedCleanly
                /\ timers = 0 /\ timers' > 0) =>
             \E p \in DOMAIN ports : PortErrorEvent(p) \/ PortCloseEvent(p)]_vars


\* C27 as claimed: the only transport that is ever open is the one the link
\* references (the one isSerialConnected reports on), and a line is stored
\* only when it comes from that transport.
C27_OnlyCurrentTransportOpen ==
    [][/\ \A p \in DOMAIN ports' : ports'[p].st = "open" => p = port'
       /\ \A p \in DOMAIN ports :
             (SerialData(p, lastLine'.line) /\ pushedR' # pushedR) => p = port]_vars


\* the sockets of the hook that are connecting or open
LiveSockets == {k \in 1..Len(hook.sockets) : hook.sockets[k] \in {"connecting", "open"}}

\* C28 as claimed: the hook holds at most one WebSocket that is connecting
\* or open, and no published reading is in its history twice.
C28_OneLiveSocket ==
    /\ Cardinality(LiveSockets) <= 1
    /\ \A i, j \in 1..Len(hook.history) :
          i # j => hook.history[i] # hook.history[j]

\* C29 as claimed: once the hook is unmounted no reconnect timeout is
\* pending and it creates no further WebSocket.
C29_NothingAfterUnmount ==
    [][~hook'.mounted =>
          /\ Pending(hook') = 0
          /\ ~hook.mounted => Len(hook'.sockets) = Len(hook.sockets)]_vars


\* the number of demo-mode warnings among the messages ms
Warnings(ms) == Len(SelectSeq(ms, LAMBDA m : m = DemoWarning))

\* C30: whatever the sequence of startup and of failed and successful
\* update_config requests, at most one demo interval is alive, a tick of the
\* clock generates at most one demo reading, and an open dashboard receives
\* the demo-mode warning once in a step that activates demo mode and not at
\* all in any other step.
C30_OneDemoInterval ==
    [][/\ demoTimers' <= 1
       /\ nDemo' <= nDemo + 1
       /\ \A c \in Clients : readyState[c] = "open" /\ readyState'[c] = "open" =>
              Warnings(Sent(c)) = IF ~demoInterval /\ demoInterval' THEN 1 ELSE 0]_vars

\* The startup open failed (first activation), an update_config succeeded
\* (demo mode stopped), a second one failed (second activation) and a third
\* one failed while demo mode was running: the dashboard has two warnings
\* for three failed opens, one interval is alive and it has generated.
C30_Witness ==
    /\ readyState[1] = "open"
    /\ demoInterval
    /\ demoTimers = 1
    /\ nDemo >= 1
    /\ Warnings(inbox[1]) = 2
    /\ Len(SelectSeq(inbox[1], LAMBDA m : m = NotAvailable)) = 3
    /\ Len(ports) = 4
    /\ ports[2].st = "closed" /\ ports[2].closer = "post"
    /\ \A p \in {1, 3, 4} : ports[p].st = "closed" /\ ports[p].closer = "none"

=============================================================================
